---- MODULE Spec2Model ----
(***************************************************************************)
(* A model of the task manager of src/aplication_maps.js: the TaskManager  *)
(* class (a Map of tasks kept in step with one localStorage slot).         *)
(*                                                                         *)
(* A JavaScript string is a sequence of one-character strings, so that     *)
(* String.prototype.trim is computed and not assumed.  A Map is a sequence *)
(* of [key, value] entries with distinct keys, in insertion order.  The    *)
(* content of the localStorage slot is the syntax tree of the JSON text it *)
(* holds (or one of the texts that JSON.parse or new Map reject).          *)
(***************************************************************************)
EXTENDS Integers, Sequences, FiniteSets

VARIABLES
    tasks,          \* TaskManager.tasks: the Map, as a sequence of entries
    storage,        \* localStorage's slot 'taskManager_tasks'
    last,           \* the last call made on the store, and how it ended
    writeFailures,  \* how many localStorage.setItem calls have thrown so far
    dom,            \* the page: form, search box, search result, list, message
    timers,         \* the pending setTimeout callbacks: the seconds each has left
    shown           \* the seconds since showMessage was last called (up to Delay)

vars == <<tasks, storage, last, writeFailures, dom, timers, shown>>

-----------------------------------------------------------------------------
(* Bounds of the model *)

\* The add operation is not offered on a collection that holds this many tasks.
MaxTasks == 2

\* localStorage.setItem throws (quota exceeded) at most this many times.
MaxFailures == 1

\* The collections that are listed hold at most this many tasks.
MaxListed == 3

\* No message is shown while this many hide callbacks are pending.
MaxTimers == 2

\* The delay of showMessage's setTimeout, in seconds (3000 ms).
Delay == 3

\* Whitespace, as String.prototype.trim sees it.
Whitespace == {" "}

\* The values a caller passes as id.
IdInputs ==
    { <<>>, <<" ">>, <<"a">>, <<" ", "a">>, <<"b">> }

\* The values a caller passes as description.
DescriptionInputs ==
    { <<>>, <<" ", "x", " ">> }

\* The values a caller passes as datetime; "1" and "2" stand for two dates.
DatetimeInputs ==
    { <<" ">>, <<"1">>, <<" ", "2">> }

\* The values the user types into the search box.
SearchInputs ==
    { <<" ">>, <<"a">>, <<" ", "a">> }

\* The ways the user fills in the form: id, description, date and time.
FormInputs ==
    { << <<"a">>, <<" ", "x", " ">>, <<"2">> >>,
      << <<" ", "a">>, <<" ", "x", " ">>, <<"1">> >>,
      << <<"a">>, <<>>, <<"1">> >>,
      << <<" ">>, <<" ", "x", " ">>, <<" ", "2">> >> }

\* The readings of the clock (new Date()).
Times == {0}

-----------------------------------------------------------------------------
(* Strings *)

RECURSIVE trimStart(_)
trimStart(s) ==
    IF s = <<>> THEN s
    ELSE IF Head(s) \in Whitespace THEN trimStart(Tail(s))
    ELSE s

RECURSIVE trimEnd(_)
trimEnd(s) ==
    IF s = <<>> THEN s
    ELSE IF s[Len(s)] \in Whitespace THEN trimEnd(SubSeq(s, 1, Len(s) - 1))
    ELSE s

\* String.prototype.trim
trim(s) == trimEnd(trimStart(s))

-----------------------------------------------------------------------------
(* Map<string, Task> *)

\* The value Map.get returns for a key that is not there.
undefined == [undefined |-> TRUE]

MapKeys(m) == { m[i].key : i \in 1..Len(m) }

\* Map.prototype.has
MapHas(m, k) == \E i \in 1..Len(m) : m[i].key = k

\* Map.prototype.get
MapGet(m, k) ==
    IF MapHas(m, k)
    THEN m[CHOOSE i \in 1..Len(m) : m[i].key = k].value
    ELSE undefined

\* Map.prototype.set: a new key is appended, a present key keeps its place
MapSet(m, k, v) ==
    IF MapHas(m, k)
    THEN [i \in 1..Len(m) |-> IF m[i].key = k THEN [key |-> k, value |-> v] ELSE m[i]]
    ELSE Append(m, [key |-> k, value |-> v])

\* Map.prototype.delete: the map without the key (the others keep their order)
MapDelete(m, k) == SelectSeq(m, LAMBDA e : e.key # k)

\* Map.prototype.size
MapSize(m) == Len(m)

\* Array.from(map.values())
MapValues(m) == [i \in 1..Len(m) |-> m[i].value]

-----------------------------------------------------------------------------
(* JSON and the localStorage slot *)

\* A text of the slot: kind is "absent" (getItem returns null), "empty" (the
\* empty string), "garbage" (no JSON text), "null", "scalar" (a JSON number)
\* or "array"; the items of an array are entries [key, value] or, with entry
\* FALSE, something that is no entry (a number).
Text(kind, items) == [kind |-> kind, items |-> items]

Absent == Text("absent", <<>>)

\* Date.prototype.toJSON, as JSON.stringify applies it: a Date becomes its
\* ISO string, and a string stays the string it is.
toJSON(createdAt) == [type |-> "string", t |-> createdAt.t]

\* JSON.stringify of one Task
stringifyTask(task) ==
    [id |-> task.id, description |-> task.description,
     datetime |-> task.datetime, createdAt |-> toJSON(task.createdAt)]

\* A mutant of Serialize: the array is sorted by key before it is written
\* (two entries out of order are swapped).
SerializeReordered(m) ==
    LET items == [i \in 1..Len(m) |->
                    [entry |-> TRUE, key |-> m[i].key,
                     value |-> stringifyTask(m[i].value)]]
    IN  Text("array",
             IF Len(items) = 2 /\ Len(items[2].key) < Len(items[1].key)
             THEN <<items[2], items[1]>> ELSE items)

\* A mutant of Serialize: the task's datetime is written trimmed.
SerializeTrimmed(m) ==
    Text("array",
         [i \in 1..Len(m) |->
            [entry |-> TRUE, key |-> m[i].key,
             value |-> [stringifyTask(m[i].value) EXCEPT
                          !.datetime = trim(m[i].value.datetime)]]])

\* JSON.stringify(Array.from(this.tasks.entries()))
Serialize(m) ==
    Text("array",
         [i \in 1..Len(m) |->
            [entry |-> TRUE, key |-> m[i].key,
             value |-> stringifyTask(m[i].value)]])

\* JSON.parse throws a SyntaxError on a text that is no JSON
ParseThrows(text) == text.kind = "garbage"

\* new Map(v) throws a TypeError when v is not iterable or an item is no entry
NewMapThrows(v) ==
    \/ v.kind = "scalar"
    \/ v.kind = "array" /\ \E i \in 1..Len(v.items) : ~v.items[i].entry

RECURSIVE MapFromEntries(_, _)
MapFromEntries(items, m) ==
    IF items = <<>> THEN m
    ELSE MapFromEntries(Tail(items),
                        MapSet(m, Head(items).key, Head(items).value))

\* new Map(v) for a v it accepts: null gives the empty map
NewMap(v) == IF v.kind = "null" THEN <<>> ELSE MapFromEntries(v.items, <<>>)

\* The entries of an array before its first item that is no entry.
RECURSIVE EntriesBeforeBad(_)
EntriesBeforeBad(items) ==
    IF items = <<>> \/ ~Head(items).entry THEN <<>>
    ELSE <<Head(items)>> \o EntriesBeforeBad(Tail(items))

\* A mutant of loadFromLocalStorage: the entries are set one by one, and the
\* catch keeps what was set before the failure.
loadPartially(m, slot) ==
    IF slot.kind \in {"absent", "empty"} THEN [tasks |-> m, threw |-> FALSE]
    ELSE IF ParseThrows(slot) \/ slot.kind = "scalar"
         THEN [tasks |-> <<>>, threw |-> FALSE]
    ELSE IF slot.kind = "null" THEN [tasks |-> <<>>, threw |-> FALSE]
    ELSE [tasks |-> MapFromEntries(EntriesBeforeBad(slot.items), <<>>),
          threw |-> FALSE]

\* TaskManager.loadFromLocalStorage, on a store that holds m: the tasks it
\* leaves, and whether an error escapes it
loadFromLocalStorage(m, slot) ==
    IF slot.kind \in {"absent", "empty"}            \* if (stored): falsy
    THEN [tasks |-> m, threw |-> FALSE]
    ELSE IF ParseThrows(slot) \/ NewMapThrows(slot) \* catch: this.tasks = new Map()
         THEN [tasks |-> <<>>, threw |-> FALSE]
    ELSE [tasks |-> NewMap(slot), threw |-> FALSE]

\* A mutant of saveToLocalStorage: no try/catch, the error of setItem escapes.
saveUncaught(m, slot, ok) ==
    IF ok THEN [slot |-> Serialize(m), wrote |-> "written", threw |-> FALSE]
    ELSE [slot |-> slot, wrote |-> "failed", threw |-> TRUE]

\* TaskManager.saveToLocalStorage; ok tells whether localStorage.setItem
\* succeeds: the slot it leaves, what became of the write, and whether an
\* error escapes it
saveToLocalStorage(m, slot, ok) ==
    IF ok THEN [slot |-> Serialize(m), wrote |-> "written", threw |-> FALSE]
    ELSE [slot |-> slot, wrote |-> "failed", threw |-> FALSE]

\* No call of saveToLocalStorage.
NotSaved(slot) == [slot |-> slot, wrote |-> "none", threw |-> FALSE]

-----------------------------------------------------------------------------
(* TaskManager *)

\* new TaskManager(): this.tasks = new Map(); this.loadFromLocalStorage()
TaskManager(slot) == loadFromLocalStorage(<<>>, slot)

\* A mutant of NewTask: the description is stored as given.
NewTaskUntrimmed(id, description, datetime, t) ==
    [id |-> trim(id), description |-> description,
     datetime |-> datetime, createdAt |-> [type |-> "Date", t |-> t]]

\* The Task that addTask builds.
NewTask(id, description, datetime, t) ==
    [id |-> trim(id), description |-> trim(description),
     datetime |-> datetime, createdAt |-> [type |-> "Date", t |-> t]]

\* A mutant of addTask: no check that the id is new, the set replaces the task.
addTaskOverwriting(m, id, description, datetime, t) ==
    IF trim(id) = <<>> \/ trim(description) = <<>> \/ trim(datetime) = <<>>
    THEN [tasks |-> m, result |-> "InvalidInput", save |-> FALSE]
    ELSE [tasks |-> MapSet(m, id, [id |-> trim(id), description |-> trim(description),
                                   datetime |-> datetime,
                                   createdAt |-> [type |-> "Date", t |-> t]]),
          result |-> "true", save |-> TRUE]

\* A mutant of addTask: the fields are not validated.
addTaskUnvalidated(m, id, description, datetime, t) ==
    IF MapHas(m, id)
    THEN [tasks |-> m, result |-> "DuplicateKey", save |-> FALSE]
    ELSE [tasks |-> MapSet(m, id, NewTask(id, description, datetime, t)),
          result |-> "true", save |-> TRUE]

\* TaskManager.addTask up to its call of saveToLocalStorage: the map it
\* leaves, its result ("DuplicateKey" and "InvalidInput" are the two errors
\* it throws) and whether it goes on to save
addTask(m, id, description, datetime, t) ==
    IF MapHas(m, id)
    THEN [tasks |-> m, result |-> "DuplicateKey", save |-> FALSE]
    ELSE IF trim(id) = <<>> \/ trim(description) = <<>> \/ trim(datetime) = <<>>
         THEN [tasks |-> m, result |-> "InvalidInput", save |-> FALSE]
    ELSE [tasks |-> MapSet(m, id, NewTask(id, description, datetime, t)),
          result |-> "true", save |-> TRUE]

\* TaskManager.getTask
getTask(m, id) == MapGet(m, id)

\* TaskManager.hasTask
hasTask(m, id) == MapHas(m, id)

\* TaskManager.getTaskCount
getTaskCount(m) == MapSize(m)

\* A mutant of removeTask: the slot is written whether or not a task was deleted.
removeTaskAlwaysSaving(m, id) ==
    [tasks |-> MapDelete(m, id),
     result |-> IF MapHas(m, id) THEN "true" ELSE "false", save |-> TRUE]

\* A mutant of removeTask: the slot is not written after a deletion.
removeTaskNeverSaving(m, id) ==
    [tasks |-> MapDelete(m, id),
     result |-> IF MapHas(m, id) THEN "true" ELSE "false", save |-> FALSE]

\* TaskManager.removeTask up to its call of saveToLocalStorage
removeTask(m, id) ==
    [tasks |-> MapDelete(m, id),
     result |-> IF MapHas(m, id) THEN "true" ELSE "false",
     save |-> MapHas(m, id)]

\* A mutant of clearAllTasks: an empty collection is not saved again.
clearAllTasksIfAny(m) == [tasks |-> <<>>, result |-> "void", save |-> m # <<>>]

\* TaskManager.clearAllTasks up to its call of saveToLocalStorage
clearAllTasks(m) == [tasks |-> <<>>, result |-> "void", save |-> TRUE]

-----------------------------------------------------------------------------
(* Dates and TaskManager.getAllTasks *)

\* The characters that stand for a date each: "1" is the earliest.
DateDigits == {"1", "2", "3"}

\* The instant a date character stands for.
DigitTime(c) == CASE c = "1" -> 1 [] c = "2" -> 2 [] OTHER -> 3

\* new Date(datetime).getTime(): NaN (valid FALSE) for a string that is no
\* date.  A date with whitespace around it is no ISO format and is left to
\* the implementation's own parser, which (as V8's does) skips the whitespace.
getTime(datetime) ==
    LET d == trim(datetime)
    IN  IF Len(d) = 1 /\ d[1] \in DateDigits
        THEN [valid |-> TRUE, time |-> DigitTime(d[1])]
        ELSE [valid |-> FALSE, time |-> 0]

\* A mutant of comparefn: the operands are swapped (b - a).
comparefnDescending(a, b) ==
    LET x == getTime(a.datetime)
        y == getTime(b.datetime)
    IN  IF x.valid /\ y.valid THEN [nan |-> FALSE, v |-> y.time - x.time]
        ELSE [nan |-> TRUE, v |-> 0]

\* The comparator of getAllTasks: the difference of the two times, NaN when
\* one of them is NaN
comparefn(a, b) ==
    LET x == getTime(a.datetime)
        y == getTime(b.datetime)
    IN  IF x.valid /\ y.valid THEN [nan |-> FALSE, v |-> x.time - y.time]
        ELSE [nan |-> TRUE, v |-> 0]

\* Array.prototype.sort's use of the comparator: NaN counts as +0
SortCompare(a, b) ==
    LET c == comparefn(a, b) IN IF c.nan THEN 0 ELSE c.v

\* x put into the sorted array, behind every element that is not greater.
RECURSIVE InsertSorted(_, _)
InsertSorted(sorted, x) ==
    IF sorted = <<>> THEN <<x>>
    ELSE IF SortCompare(sorted[Len(sorted)], x) > 0
         THEN Append(InsertSorted(SubSeq(sorted, 1, Len(sorted) - 1), x),
                     sorted[Len(sorted)])
    ELSE Append(sorted, x)

\* Array.prototype.sort, a stable sort (an insertion sort, as the engines
\* run on short arrays)
RECURSIVE SortArray(_)
SortArray(a) ==
    IF a = <<>> THEN <<>>
    ELSE InsertSorted(SortArray(SubSeq(a, 1, Len(a) - 1)), a[Len(a)])

\* TaskManager.getAllTasks
getAllTasks(m) == SortArray(MapValues(m))

-----------------------------------------------------------------------------
(* The page and TaskUI's rendering *)

\* TaskUI.formatDateTime: the date of the string in the pt-BR format, or the
\* text "Invalid Date"
formatDateTime(datetime) == getTime(datetime)

\* The form after taskForm.reset().
EmptyForm == [id |-> <<>>, description |-> <<>>, datetime |-> <<>>]

\* What the search result area shows: nothing ("none"), the prompt to enter
\* an id ("prompt"), a task ("task") or that the id was not found ("notfound").
Result(kind, id, description, datetime) ==
    [kind |-> kind, id |-> id, description |-> description, datetime |-> datetime]

NoResult == Result("none", <<>>, <<>>, formatDateTime(<<>>))

\* What renderTasks makes of the list of tasks: the empty-state block, or one
\* block per task with its delete button (onclick is the id the button
\* passes to taskUI.removeTask)
renderTasks(list) ==
    [emptyState |-> Len(list) = 0,
     items |-> [i \in 1..Len(list) |->
                  [id |-> list[i].id, description |-> list[i].description,
                   datetime |-> formatDateTime(list[i].datetime),
                   onclick |-> list[i].id]]]

\* The message area: its text (what it says, and of which id) and its class.
Message(text, id, class) == [text |-> text, id |-> id, class |-> class]

\* The page as index.html gives it and TaskUI's constructor renders it over
\* the tasks of m.
LoadedPage(m) ==
    [form |-> EmptyForm,
     searchInput |-> <<>>,
     searchResult |-> NoResult,
     tasksList |-> renderTasks(getAllTasks(m)),
     message |-> Message("", <<>>, "hidden")]

-----------------------------------------------------------------------------
(* The calls made on the store *)

NoArg == <<>>

\* The record of a call: the operation, its arguments, its result (the value
\* returned, or the error thrown) and what became of the slot's write.
Call(op, id, description, datetime, result, wrote) ==
    [op |-> op, id |-> id, description |-> description, datetime |-> datetime,
     result |-> result, wrote |-> wrote]

\* localStorage.setItem may throw while fewer than MaxFailures writes have failed.
WriteOutcomes == IF writeFailures < MaxFailures THEN {TRUE, FALSE} ELSE {TRUE}

\* The end of a mutating operation: r is what the operation made of the map,
\* and its save, if it makes one, succeeds as ok tells.
Finish(op, id, description, datetime, r, ok) ==
    LET s == IF r.save THEN saveToLocalStorage(r.tasks, storage, ok)
             ELSE NotSaved(storage)
    IN  /\ tasks' = r.tasks
        /\ storage' = s.slot
        /\ writeFailures' = IF s.wrote = "failed" THEN writeFailures + 1
                            ELSE writeFailures
        /\ last' = Call(op, id, description, datetime,
                        IF s.threw THEN "QuotaExceededError" ELSE r.result,
                        s.wrote)
        /\ UNCHANGED <<dom, timers, shown>>

\* taskManager.addTask(id, description, datetime)
AddTask ==
    \E id \in IdInputs, description \in DescriptionInputs,
       datetime \in DatetimeInputs, t \in Times, ok \in WriteOutcomes :
        LET r == addTask(tasks, id, description, datetime, t)
        IN  /\ r.save => Len(tasks) < MaxTasks
            /\ ok \/ r.save
            /\ Finish("addTask", id, description, datetime, r, ok)

\* taskManager.removeTask(id)
RemoveTask ==
    \E id \in IdInputs, ok \in WriteOutcomes :
        LET r == removeTask(tasks, id)
        IN  /\ ok \/ r.save
            /\ Finish("removeTask", id, NoArg, NoArg, r, ok)

\* taskManager.clearAllTasks()
ClearAllTasks ==
    \E ok \in WriteOutcomes :
        Finish("clearAllTasks", NoArg, NoArg, NoArg, clearAllTasks(tasks), ok)

\* The page is loaded again: a new TaskManager is constructed over the slot.
Restart ==
    LET c == TaskManager(storage)
    IN  /\ tasks' = c.tasks
        /\ last' = Call("constructor", NoArg, NoArg, NoArg,
                        IF c.threw THEN "TypeError" ELSE "constructed", "none")
        /\ UNCHANGED <<storage, writeFailures, dom, timers, shown>>

\* The state after new TaskUI() (and its new TaskManager()) over the slot.
Constructed(slot) ==
    LET c == TaskManager(slot)
    IN  /\ storage = slot
        /\ tasks = c.tasks
        /\ last = Call("constructor", NoArg, NoArg, NoArg,
                       IF c.threw THEN "TypeError" ELSE "constructed", "none")
        /\ writeFailures = 0
        /\ dom = LoadedPage(c.tasks)
        /\ timers = <<>>
        /\ shown = Delay

\* The first session: the slot has never been written.
Init == Constructed(Absent)

Next == AddTask \/ RemoveTask \/ ClearAllTasks \/ Restart

Spec == Init /\ [][Next]_vars

-----------------------------------------------------------------------------
(* A session that starts over a slot other code may have written *)

\* The tasks found in such a slot.
FoundTasks ==
    { [id |-> <<"a">>, description |-> <<"x">>, datetime |-> <<"1">>,
       createdAt |-> [type |-> "string", t |-> 0]],
      [id |-> <<"b">>, description |-> <<"x">>, datetime |-> <<"1">>,
       createdAt |-> [type |-> "string", t |-> 0]] }

\* The items found in an array of such a slot.
FoundItems ==
    { [entry |-> TRUE, key |-> v.id, value |-> v] : v \in FoundTasks }
    \cup { [entry |-> FALSE, key |-> NoArg, value |-> undefined] }

\* The texts found in such a slot.
FoundTexts ==
    { Text(k, <<>>) : k \in {"absent", "empty", "garbage", "null", "scalar", "array"} }
    \cup { Text("array", <<i>>) : i \in FoundItems }
    \cup { Text("array", <<i, j>>) : i, j \in FoundItems }

InitFound == \E slot \in FoundTexts : Constructed(slot)

SpecFound == InitFound /\ [][Next]_vars

-----------------------------------------------------------------------------
(* TaskUI *)

\* The page and its timers: what TaskUI's handlers read and change.
Page(d, pending, age) == [dom |-> d, timers |-> pending, shown |-> age]

\* A mutant of showMessage: no hide is scheduled for an error message.
showMessageKeepingErrors(page, text, id, type) ==
    Page([page.dom EXCEPT !.message = Message(text, id, type)],
         IF type = "error" THEN page.timers ELSE Append(page.timers, Delay), 0)

\* TaskUI.showMessage: the text and the class are set, and a callback that
\* hides the message is scheduled Delay seconds from now
showMessage(page, text, id, type) ==
    Page([page.dom EXCEPT !.message = Message(text, id, type)],
         Append(page.timers, Delay), 0)

\* The callback of showMessage's setTimeout: className = 'message hidden'
hideMessage(page) ==
    Page([page.dom EXCEPT !.message.class = "hidden"], Tail(page.timers),
         page.shown)

\* What a handler leaves: the store, the page, and how the handler ended.
Handled(m, slot, wrote, page, result) ==
    [tasks |-> m, slot |-> slot, wrote |-> wrote, page |-> page, result |-> result]

\* A mutant of handleAddTask: the form is reset whether or not the add succeeded.
handleAddTaskResetting(m, slot, page, id, description, datetime, t, ok) ==
    LET r == addTask(m, id, description, datetime, t)
        s == IF r.save THEN saveToLocalStorage(r.tasks, slot, ok) ELSE NotSaved(slot)
        reset == [page EXCEPT !.dom.form = EmptyForm]
    IN  IF r.result = "true" /\ ~s.threw
        THEN Handled(r.tasks, s.slot, s.wrote,
                     showMessage([reset EXCEPT !.dom.tasksList =
                                     renderTasks(getAllTasks(r.tasks))],
                                 "added", id, "success"),
                     "void")
        ELSE Handled(r.tasks, s.slot, s.wrote,
                     showMessage(reset,
                                 IF s.threw THEN "QuotaExceededError" ELSE r.result,
                                 IF r.result = "DuplicateKey" THEN id ELSE <<>>,
                                 "error"),
                     "void")

\* TaskUI.handleAddTask, with the form filled in with id, description and
\* datetime: the message of the duplicate error names the id, the other
\* error messages name none
handleAddTask(m, slot, page, id, description, datetime, t, ok) ==
    LET r == addTask(m, id, description, datetime, t)
        s == IF r.save THEN saveToLocalStorage(r.tasks, slot, ok) ELSE NotSaved(slot)
        filled == [page EXCEPT !.dom.form =
                      [id |-> id, description |-> description, datetime |-> datetime]]
    IN  IF r.result = "true" /\ ~s.threw
        THEN Handled(r.tasks, s.slot, s.wrote,
                     showMessage([filled EXCEPT
                                     !.dom.form = EmptyForm,
                                     !.dom.tasksList = renderTasks(getAllTasks(r.tasks))],
                                 "added", id, "success"),
                     "void")
        ELSE Handled(r.tasks, s.slot, s.wrote,
                     showMessage(filled,
                                 IF s.threw THEN "QuotaExceededError" ELSE r.result,
                                 IF r.result = "DuplicateKey" THEN id ELSE <<>>,
                                 "error"),
                     "void")

\* A mutant of handleSearch: the term is looked up as typed.
handleSearchUntrimmed(m, page) ==
    LET searchId == page.dom.searchInput
        task == getTask(m, searchId)
    IN  IF searchId = <<>>
        THEN [page |-> [page EXCEPT !.dom.searchResult =
                           Result("prompt", <<>>, <<>>, formatDateTime(<<>>))],
              lookup |-> NoArg, result |-> "no lookup"]
        ELSE IF task # undefined
        THEN [page |-> [page EXCEPT !.dom.searchResult =
                           Result("task", task.id, task.description,
                                  formatDateTime(task.datetime))],
              lookup |-> searchId, result |-> "lookup"]
        ELSE [page |-> [page EXCEPT !.dom.searchResult =
                           Result("notfound", searchId, <<>>, formatDateTime(<<>>))],
              lookup |-> searchId, result |-> "lookup"]

\* TaskUI.handleSearch: the page it leaves, the key it looked up (if any)
handleSearch(m, page) ==
    LET searchId == trim(page.dom.searchInput)
        task == getTask(m, searchId)
    IN  IF searchId = <<>>
        THEN [page |-> [page EXCEPT !.dom.searchResult =
                           Result("prompt", <<>>, <<>>, formatDateTime(<<>>))],
              lookup |-> NoArg, result |-> "no lookup"]
        ELSE IF task # undefined
        THEN [page |-> [page EXCEPT !.dom.searchResult =
                           Result("task", task.id, task.description,
                                  formatDateTime(task.datetime))],
              lookup |-> searchId, result |-> "lookup"]
        ELSE [page |-> [page EXCEPT !.dom.searchResult =
                           Result("notfound", searchId, <<>>, formatDateTime(<<>>))],
              lookup |-> searchId, result |-> "lookup"]

\* A mutant of TaskUI.removeTask: the answer of confirm is not looked at.
removeTaskUnconfirmed(m, slot, page, id, confirmed, ok) ==
    LET r == removeTask(m, id)
        s == IF r.save THEN saveToLocalStorage(r.tasks, slot, ok) ELSE NotSaved(slot)
        rendered == [page EXCEPT !.dom.tasksList = renderTasks(getAllTasks(r.tasks))]
    IN  IF r.result = "true"
        THEN Handled(r.tasks, s.slot, s.wrote,
                     showMessage(rendered, "removed", id, "success"), "void")
        ELSE Handled(r.tasks, s.slot, s.wrote,
                     showMessage(page, "removeError", id, "error"), "void")

\* A mutant of TaskUI.removeTask: the search box and result are left alone.
removeTaskKeepingSearch(m, slot, page, id, confirmed, ok) ==
    LET r == removeTask(m, id)
        s == IF r.save THEN saveToLocalStorage(r.tasks, slot, ok) ELSE NotSaved(slot)
        rendered == [page EXCEPT !.dom.tasksList = renderTasks(getAllTasks(r.tasks))]
    IN  IF ~confirmed THEN Handled(m, slot, "none", page, "void")
        ELSE IF r.result = "true"
        THEN Handled(r.tasks, s.slot, s.wrote,
                     showMessage(rendered, "removed", id, "success"), "void")
        ELSE Handled(r.tasks, s.slot, s.wrote,
                     showMessage(page, "removeError", id, "error"), "void")

\* A mutant of TaskUI.removeTask: the list is not rendered after the removal.
removeTaskNotRendering(m, slot, page, id, confirmed, ok) ==
    LET r == removeTask(m, id)
        s == IF r.save THEN saveToLocalStorage(r.tasks, slot, ok) ELSE NotSaved(slot)
        shown1 == showMessage(page, "removed", id, "success")
    IN  IF ~confirmed THEN Handled(m, slot, "none", page, "void")
        ELSE IF r.result = "true"
        THEN Handled(r.tasks, s.slot, s.wrote,
                     IF page.dom.searchInput = id
                     THEN [shown1 EXCEPT !.dom.searchResult = NoResult,
                                         !.dom.searchInput = <<>>]
                     ELSE shown1,
                     "void")
        ELSE Handled(r.tasks, s.slot, s.wrote,
                     showMessage(page, "removeError", id, "error"), "void")

\* TaskUI.removeTask(id), the onclick of a delete button; confirmed is the
\* answer of confirm()
removeTaskClicked(m, slot, page, id, confirmed, ok) ==
    LET r == removeTask(m, id)
        s == IF r.save THEN saveToLocalStorage(r.tasks, slot, ok) ELSE NotSaved(slot)
        rendered == [page EXCEPT !.dom.tasksList = renderTasks(getAllTasks(r.tasks))]
        shown1 == showMessage(rendered, "removed", id, "success")
    IN  IF ~confirmed THEN Handled(m, slot, "none", page, "void")
        ELSE IF r.result = "true" /\ ~s.threw
        THEN Handled(r.tasks, s.slot, s.wrote,
                     IF page.dom.searchInput = id
                     THEN [shown1 EXCEPT !.dom.searchResult = NoResult,
                                         !.dom.searchInput = <<>>]
                     ELSE shown1,
                     "void")
        ELSE IF s.threw
        THEN Handled(r.tasks, s.slot, s.wrote, page, "QuotaExceededError")
        ELSE Handled(r.tasks, s.slot, s.wrote,
                     showMessage(page, "removeError", id, "error"), "void")

-----------------------------------------------------------------------------
(* The controller's events *)

ThePage == Page(dom, timers, shown)

\* The answers of confirm(), as the call record keeps them.
Answer(confirmed) ==
    IF confirmed THEN <<"o", "k">> ELSE <<"c", "a", "n", "c", "e", "l">>

\* The step leaves what the handler left.
Leaves(h, op, id, description, datetime) ==
    /\ tasks' = h.tasks
    /\ storage' = h.slot
    /\ writeFailures' = IF h.wrote = "failed" THEN writeFailures + 1
                        ELSE writeFailures
    /\ dom' = h.page.dom
    /\ timers' = h.page.timers
    /\ shown' = h.page.shown
    /\ last' = Call(op, id, description, datetime, h.result, h.wrote)

\* The form is submitted with id, description and datetime filled in:
\* this.handleAddTask()
Submit ==
    \E form \in FormInputs, t \in Times, ok \in WriteOutcomes :
        LET id == form[1]
            description == form[2]
            datetime == form[3]
            h == handleAddTask(tasks, storage, ThePage, id, description,
                               datetime, t, ok)
        IN  /\ Len(timers) < MaxTimers
            /\ Len(h.tasks) <= MaxTasks
            /\ ok \/ h.wrote # "written"
            /\ Leaves(h, "handleAddTask", id, description, datetime)

\* The user types into the search box.
TypeSearch ==
    \E term \in SearchInputs :
        /\ term # dom.searchInput
        /\ dom' = [dom EXCEPT !.searchInput = term]
        /\ last' = Call("type", term, NoArg, NoArg, "void", "none")
        /\ UNCHANGED <<tasks, storage, writeFailures, timers, shown>>

\* A click on the search button, or Enter in the search box: this.handleSearch()
Search ==
    LET h == handleSearch(tasks, ThePage)
    IN  /\ dom' = h.page.dom
        /\ last' = Call("handleSearch", h.lookup, NoArg, NoArg, h.result, "none")
        /\ UNCHANGED <<tasks, storage, writeFailures, timers, shown>>

\* A click on the refresh button: this.renderTasks()
Refresh ==
    /\ dom' = [dom EXCEPT !.tasksList = renderTasks(getAllTasks(tasks))]
    /\ last' = Call("renderTasks", NoArg, NoArg, NoArg, "void", "none")
    /\ UNCHANGED <<tasks, storage, writeFailures, timers, shown>>

\* A click on the delete button of a rendered task, and the user's answer
\* to confirm(): taskUI.removeTask(id). The call record keeps the answer in
\* the place of the second argument.
DeleteClick ==
    \E i \in 1..Len(dom.tasksList.items), confirmed \in BOOLEAN,
       ok \in WriteOutcomes :
        LET id == dom.tasksList.items[i].onclick
            h == removeTaskClicked(tasks, storage, ThePage, id, confirmed, ok)
        IN  /\ confirmed => Len(timers) < MaxTimers
            /\ ok \/ h.wrote # "written"
            /\ Leaves(h, "TaskUI.removeTask", id, Answer(confirmed), NoArg)

\* A second passes; no callback is due.
Tick ==
    /\ \A i \in 1..Len(timers) : timers[i] > 0
    /\ timers # <<>> \/ shown < Delay
    /\ timers' = [i \in 1..Len(timers) |-> timers[i] - 1]
    /\ shown' = IF shown < Delay THEN shown + 1 ELSE Delay
    /\ last' = Call("tick", NoArg, NoArg, NoArg, "void", "none")
    /\ UNCHANGED <<tasks, storage, writeFailures, dom>>

\* The oldest pending callback is due and runs.
TimerFires ==
    /\ timers # <<>> /\ Head(timers) = 0
    /\ LET page == hideMessage(ThePage)
       IN  /\ dom' = page.dom
           /\ timers' = page.timers
           /\ shown' = page.shown
    /\ last' = Call("timeout", NoArg, NoArg, NoArg, "void", "none")
    /\ UNCHANGED <<tasks, storage, writeFailures>>

NextUI ==
    Submit \/ TypeSearch \/ Search \/ Refresh \/ DeleteClick \/ Tick \/ TimerFires

SpecUI == Init /\ [][NextUI]_vars

\* The page is loaded again: DOMContentLoaded constructs a new TaskUI, and
\* with it a new TaskManager over the slot; the timers of the page that was
\* left are gone.
Reload ==
    LET c == TaskManager(storage)
    IN  /\ tasks' = c.tasks
        /\ dom' = LoadedPage(c.tasks)
        /\ timers' = <<>>
        /\ shown' = Delay
        /\ last' = Call("constructor", NoArg, NoArg, NoArg,
                        IF c.threw THEN "TypeError" ELSE "constructed", "none")
        /\ UNCHANGED <<storage, writeFailures>>

\* The controller's events over several loads of the page.
NextReload == NextUI \/ Reload

SpecReload == Init /\ [][NextReload]_vars

\* The events that show a notification, and the passing of time: time
\* passes, and a callback that is due runs.
NextNotify ==
    Submit \/ DeleteClick \/ Tick \/ TimerFires

SpecNotify ==
    Init /\ [][NextNotify]_vars /\ WF_vars(Tick) /\ WF_vars(TimerFires)

-----------------------------------------------------------------------------
(* A session that starts over a collection an earlier session persisted *)

\* The ids of the persisted tasks, in the order they were added.
ListIds == << <<"a">>, <<"b">>, <<"c">>, <<"d">> >>

\* Their datetimes: three dates, and a text that is no date.
ListDatetimes == { <<"1">>, <<"2">>, <<"3">>, <<"n">> }

\* The slot that holds the tasks of these datetimes, as an earlier session
\* wrote it.
ListSlot(datetimes) ==
    Text("array",
         [i \in 1..Len(datetimes) |->
            [entry |-> TRUE, key |-> ListIds[i],
             value |-> [id |-> ListIds[i], description |-> <<"x">>,
                        datetime |-> datetimes[i],
                        createdAt |-> [type |-> "string", t |-> 0]]]])

\* The slots such a session finds: up to MaxListed tasks.
ListSlots ==
    UNION { { ListSlot(f) : f \in [1..n -> ListDatetimes] } :
              n \in 0..(IF MaxListed < Len(ListIds) THEN MaxListed
                        ELSE Len(ListIds)) }

InitList == \E slot \in ListSlots : Constructed(slot)

NextList == RemoveTask \/ Refresh

SpecList == InitList /\ [][NextList]_vars

-----------------------------------------------------------------------------
(* The queries made on the store *)

\* What a query leaves of the map, and what it returns.
Queried(m, result) == [tasks |-> m, result |-> result]

\* The text of a number.
NumberText(n) ==
    IF n < 10 THEN <<"0", "1", "2", "3", "4", "5", "6", "7", "8", "9">>[n + 1]
    ELSE "many"

\* A mutant of getAllTasksCall: the values are sorted in the map itself.
getAllTasksSortingTheMap(m) ==
    LET sorted == SortArray(MapValues(m))
    IN  Queried([i \in 1..Len(m) |-> [key |-> sorted[i].id, value |-> sorted[i]]],
                "array")

\* A call of getAllTasks: Array.from copies the values, and the copy is
\* what sort reorders
getAllTasksCall(m) ==
    LET copy == MapValues(m)
        sorted == SortArray(copy)
    IN  Queried(m, "array")

\* The step leaves what the query left, and touches nothing else.
Answers(q, op, id) ==
    /\ tasks' = q.tasks
    /\ last' = Call(op, id, NoArg, NoArg, q.result, "none")
    /\ UNCHANGED <<storage, writeFailures, dom, timers, shown>>

\* taskManager.getTask(id)
GetTask ==
    \E id \in IdInputs :
        Answers(Queried(tasks, IF getTask(tasks, id) = undefined THEN "undefined"
                               ELSE "task"),
                "getTask", id)

\* taskManager.hasTask(id)
HasTask ==
    \E id \in IdInputs :
        Answers(Queried(tasks, IF hasTask(tasks, id) THEN "true" ELSE "false"),
                "hasTask", id)

\* taskManager.getTaskCount()
GetTaskCount ==
    Answers(Queried(tasks, NumberText(getTaskCount(tasks))), "getTaskCount", NoArg)

\* taskManager.getAllTasks()
GetAllTasks ==
    Answers(getAllTasksCall(tasks), "getAllTasks", NoArg)

\* A session over a persisted collection in which the store is queried, the
\* search and refresh buttons are used, and tasks are removed in between.
NextQuery ==
    \/ GetTask \/ HasTask \/ GetTaskCount \/ GetAllTasks
    \/ TypeSearch \/ Search \/ Refresh
    \/ RemoveTask

\* The slots such a session finds: up to MaxTasks tasks.
QuerySlots ==
    UNION { { ListSlot(f) : f \in [1..n -> ListDatetimes] } : n \in 0..MaxTasks }

InitQuery == \E slot \in QuerySlots : Constructed(slot)

SpecQuery == InitQuery /\ [][NextQuery]_vars

-----------------------------------------------------------------------------
(* What the claims speak of *)

\* A field that is empty or holds whitespace only.
IsBlank(s) == trim(s) = <<>>

\* The tasks of a map in order, each with its key and the fields that outlive
\* a session (createdAt is a Date before a restart and a string after it).
View(m) ==
    [i \in 1..Len(m) |->
        <<m[i].key, m[i].value.id, m[i].value.description, m[i].value.datetime>>]

\* The (id, description, datetime) tuples of a map.
TupleSet(m) ==
    { <<m[i].value.id, m[i].value.description, m[i].value.datetime>> :
        i \in 1..Len(m) }

\* The step is a call of op (every operation records its own call in last).
Called(op) == last'.op = op

-----------------------------------------------------------------------------
(* C1 *)

\* C1: in every reachable state no two tasks of the collection have the same
\* id field.
C1_NoTwoTasksShareAnId ==
    \A i, j \in 1..Len(tasks) :
        i # j => tasks[i].value.id # tasks[j].value.id

-----------------------------------------------------------------------------
(* C2 *)

\* C2: an add whose id, trimmed, is the id of a task of the collection fails
\* with DuplicateKey and leaves the collection and the slot as they were.
C2_AddOfAnExistingIdFails ==
    [][ ( /\ Called("addTask")
          /\ \E i \in 1..Len(tasks) : tasks[i].value.id = trim(last'.id) )
        => ( /\ last'.result = "DuplicateKey"
             /\ tasks' = tasks
             /\ storage' = storage ) ]_vars

-----------------------------------------------------------------------------
(* C3 *)

\* C3, as claimed: an add with a blank id, description or datetime fails with
\* InvalidInput, in any state, and changes neither the collection nor the slot.
C3_BlankAddFailsWithInvalidInput ==
    [][ ( /\ Called("addTask")
          /\ IsBlank(last'.id) \/ IsBlank(last'.description) \/ IsBlank(last'.datetime) )
        => ( /\ last'.result = "InvalidInput"
             /\ tasks' = tasks
             /\ storage' = storage ) ]_vars

\* C3, amended: an add with a blank id, description or datetime fails and
\* changes neither the collection nor the slot (nothing is written); it fails
\* with DuplicateKey when the id as given is a key of the collection, and
\* with InvalidInput otherwise.
C3_BlankAddFails ==
    [][ ( /\ Called("addTask")
          /\ IsBlank(last'.id) \/ IsBlank(last'.description) \/ IsBlank(last'.datetime) )
        => ( /\ last'.result = IF hasTask(tasks, last'.id) THEN "DuplicateKey"
                               ELSE "InvalidInput"
             /\ last'.wrote = "none"
             /\ tasks' = tasks
             /\ storage' = storage ) ]_vars

\* A blank description was refused with InvalidInput by a store that holds a
\* task and has written its slot.
C3_Witness ==
    /\ last.op = "addTask"
    /\ ~IsBlank(last.id) /\ IsBlank(last.description) /\ ~IsBlank(last.datetime)
    /\ last.result = "InvalidInput"
    /\ Len(tasks) = 1
    /\ storage.kind = "array"

-----------------------------------------------------------------------------
(* C4 *)

\* C4: after a successful add the collection holds one more task, the tasks
\* it held are unchanged, the new task has the trimmed id, the trimmed
\* description and the datetime as given, and it is stored under the key
\* equal to its stored id: get and has of that id find it.
C4_AddStoresTheTaskUnderItsId ==
    [][ ( Called("addTask") /\ last'.result = "true" )
        => ( /\ getTaskCount(tasks') = getTaskCount(tasks) + 1
             /\ SubSeq(tasks', 1, Len(tasks)) = tasks
             /\ LET new == tasks'[Len(tasks')]
                IN  /\ new.value.id = trim(last'.id)
                    /\ new.value.description = trim(last'.description)
                    /\ new.value.datetime = last'.datetime
                    /\ new.key = new.value.id
                    /\ hasTask(tasks', new.value.id)
                    /\ getTask(tasks', new.value.id) = new.value ) ]_vars

-----------------------------------------------------------------------------
(* C5 *)

\* C5: while no write of the slot has failed, a store constructed from the
\* slot holds the keys of the collection in the same order with the same
\* id, description and datetime.
C5_SlotHoldsTheCollection ==
    writeFailures = 0 => View(TaskManager(storage).tasks) = View(tasks)

\* Two tasks are held, the second one just added, and no write has failed.
C5_Witness ==
    /\ writeFailures = 0
    /\ last.op = "addTask" /\ last.result = "true"
    /\ Len(tasks) = 2
    /\ storage.kind = "array" /\ Len(storage.items) = 2

-----------------------------------------------------------------------------
(* C6 *)

\* C6: persisting the collection and restoring it in a new store gives the
\* same set of (id, description, datetime) tuples.
C6_RoundTrip ==
    TupleSet(TaskManager(Serialize(tasks)).tasks) = TupleSet(tasks)

\* Two tasks are held, one with whitespace in its datetime, and the restored
\* collection is not the collection itself (its createdAt are strings).
C6_Witness ==
    /\ Len(tasks) = 2
    /\ \E i \in 1..Len(tasks) : tasks[i].value.datetime # trim(tasks[i].value.datetime)
    /\ TaskManager(Serialize(tasks)).tasks # tasks

-----------------------------------------------------------------------------
(* C7 *)

\* C7: when the write of the slot fails during add, remove or clear, the
\* operation returns its normal result, the change of the collection is
\* kept, and the slot keeps its content.
C7_FailedWriteIsNotPropagated ==
    [][ last'.wrote = "failed"
        => ( /\ storage' = storage
             /\ last'.op \in {"addTask", "removeTask", "clearAllTasks"}
             /\ last'.op = "addTask" =>
                   /\ last'.result = "true"
                   /\ ~hasTask(tasks, last'.id) /\ hasTask(tasks', last'.id)
                   /\ getTaskCount(tasks') = getTaskCount(tasks) + 1
             /\ last'.op = "removeTask" =>
                   /\ last'.result = "true"
                   /\ hasTask(tasks, last'.id) /\ ~hasTask(tasks', last'.id)
             /\ last'.op = "clearAllTasks" =>
                   /\ last'.result = "void"
                   /\ tasks' = <<>> ) ]_vars

\* The write of an add failed: the task is in the collection and not in the slot.
C7_Witness ==
    /\ last.op = "addTask" /\ last.wrote = "failed" /\ last.result = "true"
    /\ hasTask(tasks, last.id)
    /\ ~hasTask(TaskManager(storage).tasks, last.id)

-----------------------------------------------------------------------------
(* C8 *)

\* The slot holds a serialized pair sequence: an array of entries with
\* distinct keys.
IsPairSequence(slot) ==
    /\ slot.kind = "array"
    /\ \A i \in 1..Len(slot.items) : slot.items[i].entry
    /\ \A i, j \in 1..Len(slot.items) :
          i # j => slot.items[i].key # slot.items[j].key

\* The slot holds a text whose deserialization fails.
IsMalformed(slot) ==
    \/ slot.kind \in {"garbage", "scalar"}
    \/ slot.kind = "array" /\ \E i \in 1..Len(slot.items) : ~slot.items[i].entry

\* C8: right after construction the collection is empty if the slot is
\* absent, holds exactly the pairs of the slot, in their order, if the slot
\* holds a pair sequence, and is empty if the slot is malformed; the
\* construction does not fail.
C8_RestoreOnConstruction ==
    last.op = "constructor"
    => ( /\ last.result = "constructed"
         /\ storage.kind = "absent" => tasks = <<>>
         /\ IsPairSequence(storage) =>
               /\ Len(tasks) = Len(storage.items)
               /\ \A i \in 1..Len(tasks) :
                     /\ tasks[i].key = storage.items[i].key
                     /\ tasks[i].value = storage.items[i].value
         /\ IsMalformed(storage) => tasks = <<>> )

\* A store was constructed over an array whose second item is no entry.
C8_Witness ==
    /\ last.op = "constructor"
    /\ storage.kind = "array" /\ Len(storage.items) = 2
    /\ storage.items[1].entry /\ ~storage.items[2].entry
    /\ tasks = <<>>

-----------------------------------------------------------------------------
(* C9 *)

\* C9: remove of an id that is a key of the collection returns true, makes
\* the count one less, makes has false and get undefined for the id, leaves
\* the other tasks as they were, in their order, and writes the slot: after
\* a write that did not fail the slot restores to the collection.
C9_RemoveOfAPresentId ==
    [][ ( Called("removeTask") /\ hasTask(tasks, last'.id) )
        => ( /\ last'.result = "true"
             /\ getTaskCount(tasks') + 1 = getTaskCount(tasks)
             /\ ~hasTask(tasks', last'.id)
             /\ getTask(tasks', last'.id) = undefined
             /\ tasks' = SelectSeq(tasks, LAMBDA e : e.key # last'.id)
             /\ \A k \in MapKeys(tasks) \ {last'.id} :
                   getTask(tasks', k) = getTask(tasks, k)
             /\ last'.wrote \in {"written", "failed"}
             /\ last'.wrote = "written" =>
                   View(TaskManager(storage').tasks) = View(tasks') ) ]_vars

\* One of two tasks was removed and the slot written.
C9_Witness ==
    /\ last.op = "removeTask" /\ last.result = "true" /\ last.wrote = "written"
    /\ Len(tasks) = 1
    /\ storage.kind = "array" /\ Len(storage.items) = 1

-----------------------------------------------------------------------------
(* C10 *)

\* C10: remove of an id that is no key of the collection returns false, and
\* changes neither the collection nor the slot, which it does not write.
C10_RemoveOfAnAbsentId ==
    [][ ( Called("removeTask") /\ ~hasTask(tasks, last'.id) )
        => ( /\ last'.result = "false"
             /\ last'.wrote = "none"
             /\ tasks' = tasks
             /\ getTaskCount(tasks') = getTaskCount(tasks)
             /\ storage' = storage ) ]_vars

\* A remove returned false on a store that holds tasks and has written its slot.
C10_Witness ==
    /\ last.op = "removeTask" /\ last.result = "false" /\ last.wrote = "none"
    /\ Len(tasks) = 2
    /\ storage.kind = "array"

-----------------------------------------------------------------------------
(* C11 *)

\* The datetime is a date in the ISO format.
IsISODate(datetime) == Len(datetime) = 1 /\ datetime[1] \in DateDigits

\* The permutations of 1..n.
Permutations(n) ==
    { p \in [1..n -> 1..n] : \A i, j \in 1..n : i # j => p[i] # p[j] }

\* C11: when every datetime of the collection is a date, list() is a
\* permutation of the stored tasks in non-decreasing order of their dates,
\* tasks of the same date in insertion order.
C11_ListIsSortedByDate ==
    (\A i \in 1..Len(tasks) : IsISODate(tasks[i].value.datetime))
    => LET list == getAllTasks(tasks)
           n == Len(tasks)
           Time(task) == DigitTime(task.datetime[1])
       IN  /\ Len(list) = n
           /\ \E p \in Permutations(n) :
                 /\ \A i \in 1..n : list[i] = tasks[p[i]].value
                 /\ \A i, j \in 1..n :
                       i < j => \/ Time(list[i]) < Time(list[j])
                                \/ Time(list[i]) = Time(list[j]) /\ p[i] < p[j]

\* Three tasks were listed whose dates were added in the order 2, 1, 2: the
\* list is not in insertion order, and two of its tasks have the same date.
C11_Witness ==
    /\ last.op = "renderTasks"
    /\ Len(tasks) = 3
    /\ [i \in 1..3 |-> tasks[i].value.datetime] = << <<"2">>, <<"1">>, <<"2">> >>
    /\ Len(dom.tasksList.items) = 3
    /\ [i \in 1..3 |-> dom.tasksList.items[i].id] = << <<"b">>, <<"a">>, <<"c">> >>

-----------------------------------------------------------------------------
(* C12 *)

\* C12: clear, in any state, leaves the count 0 and the list empty, and
\* writes the slot whether or not the collection held a task: after a write
\* that did not fail the slot holds the empty array.
C12_ClearEmptiesAndSaves ==
    [][ Called("clearAllTasks")
        => ( /\ last'.result = "void"
             /\ getTaskCount(tasks') = 0
             /\ getAllTasks(tasks') = <<>>
             /\ last'.wrote \in {"written", "failed"}
             /\ last'.wrote = "written" =>
                   /\ storage' = Text("array", <<>>)
                   /\ TaskManager(storage').tasks = <<>> ) ]_vars

\* A clear has written the empty array to the slot.
C12_Witness ==
    /\ last.op = "clearAllTasks" /\ last.wrote = "written"
    /\ tasks = <<>>
    /\ storage.kind = "array" /\ storage.items = <<>>

-----------------------------------------------------------------------------
(* C13 *)

\* C13: every stored task has an id and a description that are not empty and
\* are their own trimmed forms.
C13_StoredFieldsAreTrimmed ==
    \A i \in 1..Len(tasks) :
        LET task == tasks[i].value
        IN  /\ task.id # <<>> /\ task.id = trim(task.id)
            /\ task.description # <<>> /\ task.description = trim(task.description)

\* After a restart the store holds a task that was added with whitespace
\* around its id and its description.
C13_Witness ==
    /\ last.op = "constructor"
    /\ \E i \in 1..Len(tasks) :
          /\ tasks[i].key # tasks[i].value.id
          /\ tasks[i].value.description = <<"x">>
          /\ tasks[i].value.createdAt.type = "string"

-----------------------------------------------------------------------------
(* C14 *)

-----------------------------------------------------------------------------
(* C15 *)

\* What the store's add makes of the form's fields in the state before.
AddOutcome == addTask(tasks, last'.id, last'.description, last'.datetime,
                      CHOOSE t \in Times : TRUE).result

\* C15: a submit of the form never ends with an error; when the store's add
\* succeeds the form is cleared, the list is rendered anew from the store and
\* a success notification is shown; when the add fails with DuplicateKey or
\* InvalidInput an error notification carrying that failure's message is
\* shown, the form keeps what was typed, and the store, the slot and the
\* rendered list are unchanged.
C15_SubmitNewTask ==
    [][ Called("handleAddTask") =>
          /\ last'.result = "void"
          /\ AddOutcome = "true" =>
                /\ hasTask(tasks', last'.id)
                /\ dom'.form = EmptyForm
                /\ dom'.tasksList = renderTasks(getAllTasks(tasks'))
                /\ dom'.message.class = "success"
                /\ dom'.message.text = "added"
          /\ AddOutcome \in {"DuplicateKey", "InvalidInput"} =>
                /\ dom'.message.class = "error"
                /\ dom'.message.text = AddOutcome
                /\ dom'.form = [id |-> last'.id, description |-> last'.description,
                                datetime |-> last'.datetime]
                /\ dom'.form # EmptyForm
                /\ tasks' = tasks
                /\ storage' = storage
                /\ dom'.tasksList = dom.tasksList
      ]_vars

\* A submit of an id the store holds has just failed.
C15_Witness ==
    /\ last.op = "handleAddTask"
    /\ dom.message = Message("DuplicateKey", last.id, "error")
    /\ dom.form.id = last.id
    /\ hasTask(tasks, last.id)
    /\ ~dom.tasksList.emptyState

-----------------------------------------------------------------------------
(* C16 *)

\* C16: a delete request the user does not confirm changes neither the
\* store nor the slot nor anything of the page, and shows no notification.
C16_UnconfirmedDelete ==
    [][ Called("TaskUI.removeTask") /\ last'.description = Answer(FALSE) =>
          UNCHANGED <<tasks, storage, writeFailures, dom, timers, shown>>
      ]_vars

\* The delete of a task the store holds has just been cancelled.
C16_Witness ==
    /\ last.op = "TaskUI.removeTask"
    /\ last.description = Answer(FALSE)
    /\ hasTask(tasks, last.id)

-----------------------------------------------------------------------------
(* C17 *)

\* C17: a confirmed delete request of an id the store holds removes that
\* task, renders the list anew, shows a success notification and, when the
\* search box holds exactly that id, empties the search box and the search
\* result; a confirmed delete request of an id the store does not hold
\* shows an error notification and leaves the store, the slot and the
\* rendered list unchanged.
C17_ConfirmedDelete ==
    [][ Called("TaskUI.removeTask") /\ last'.description = Answer(TRUE) =>
          IF hasTask(tasks, last'.id)
          THEN /\ tasks' = MapDelete(tasks, last'.id)
               /\ dom'.tasksList = renderTasks(getAllTasks(tasks'))
               /\ dom'.message = Message("removed", last'.id, "success")
               /\ dom.searchInput = last'.id =>
                     /\ dom'.searchInput = <<>>
                     /\ dom'.searchResult = NoResult
          ELSE /\ dom'.message = Message("removeError", last'.id, "error")
               /\ tasks' = tasks
               /\ storage' = storage
               /\ dom'.tasksList = dom.tasksList
      ]_vars

\* The last task has just been deleted on confirmation, and the search box
\* and the search result are empty.
C17_Witness ==
    /\ last.op = "TaskUI.removeTask"
    /\ last.description = Answer(TRUE)
    /\ dom.message = Message("removed", last.id, "success")
    /\ dom.tasksList.emptyState
    /\ dom.searchInput = <<>>
    /\ dom.searchResult = NoResult

-----------------------------------------------------------------------------
(* C18 *)

\* C18: a search trims the term of the search box; an empty trimmed term
\* shows the prompt and looks nothing up; any other looks the trimmed term
\* up, and shows the fields of the task found under it, or, when there is
\* none, the not-found message with the trimmed term.
C18_Search ==
    [][ Called("handleSearch") =>
          LET term == trim(dom.searchInput)
          IN  IF term = <<>>
              THEN /\ dom'.searchResult.kind = "prompt"
                   /\ last'.result = "no lookup"
              ELSE /\ last'.result = "lookup"
                   /\ last'.id = term
                   /\ IF hasTask(tasks, term)
                      THEN dom'.searchResult =
                               Result("task", getTask(tasks, term).id,
                                      getTask(tasks, term).description,
                                      formatDateTime(getTask(tasks, term).datetime))
                      ELSE dom'.searchResult =
                               Result("notfound", term, <<>>, formatDateTime(<<>>))
      ]_vars

\* A search of a term typed with a leading space has just shown the task
\* stored under the trimmed term.
C18_Witness ==
    /\ last.op = "handleSearch"
    /\ dom.searchInput = <<" ", "a">>
    /\ dom.searchResult.kind = "task"
    /\ dom.searchResult.id = <<"a">>

-----------------------------------------------------------------------------
(* C19 *)

Visible == dom.message.class # "hidden"

\* C19: a notification is hidden only when the full delay has passed since
\* it was shown: the pending hide of an earlier notification never hides a
\* newer one before that.
C19_HiddenOnlyAfterTheFullDelay ==
    [][ Visible /\ ~Visible' => shown = Delay ]_vars

-----------------------------------------------------------------------------
(* C20 *)

\* C20: whenever a notification is visible the notification area is hidden
\* at some later time, and it is hidden whenever no hide is pending.
C20_EveryNotificationIsHidden ==
    /\ [](timers = <<>> => ~Visible)
    /\ Visible ~> ~Visible

\* The hide of an error notification has just run with no other pending.
C20_Witness ==
    /\ last.op = "timeout"
    /\ dom.message.text \in {"DuplicateKey", "InvalidInput", "removeError"}
    /\ ~Visible
    /\ timers = <<>>

-----------------------------------------------------------------------------
(* C21 *)

\* The query operations of the store, and the controller's events built on
\* them.
Queries ==
    {"getTask", "hasTask", "getTaskCount", "getAllTasks", "handleSearch",
     "renderTasks"}

\* C21: a call of getTask, hasTask, getTaskCount or getAllTasks, a search and
\* a refresh leave the collection (its tasks and their order) and the slot
\* as they were; what a query answers and what a refresh renders is
\* computed from the collection as it is at the call.
C21_QueriesDoNotMutate ==
    [][ last'.op \in Queries =>
          /\ tasks' = tasks
          /\ storage' = storage
          /\ Called("getTask") =>
                (last'.result = "task") = (\E i \in 1..Len(tasks) : tasks[i].key = last'.id)
          /\ Called("hasTask") =>
                (last'.result = "true") = (\E i \in 1..Len(tasks) : tasks[i].key = last'.id)
          /\ Called("getTaskCount") => last'.result = NumberText(Len(tasks))
          /\ Called("renderTasks") =>
                /\ Len(dom'.tasksList.items) = Len(tasks)
                /\ { dom'.tasksList.items[i].id : i \in 1..Len(tasks) }
                     = { tasks[i].value.id : i \in 1..Len(tasks) }
      ]_vars

\* The list has just been asked of a collection whose insertion order is
\* not its date order.
C21_Witness ==
    /\ last.op = "getAllTasks"
    /\ Len(tasks) >= 2
    /\ getAllTasks(tasks) # MapValues(tasks)

-----------------------------------------------------------------------------
(* C22 *)

\* The list without its i-th element.
Without(list, i) ==
    [j \in 1..(Len(list) - 1) |-> IF j < i THEN list[j] ELSE list[j + 1]]

\* C22: a confirmed click on the delete button of a task of the rendered
\* list removes from the store that task, one the list shows with the
\* button's id, and no other task.
C22_DeleteRemovesTheTaskShown ==
    [][ Called("TaskUI.removeTask") /\ last'.description = Answer(TRUE) =>
          \E i \in 1..Len(dom.tasksList.items) :
              /\ dom.tasksList.items[i].onclick = last'.id
              /\ dom.tasksList = renderTasks(getAllTasks(tasks))
              /\ getAllTasks(tasks') = Without(getAllTasks(tasks), i)
      ]_vars

-----------------------------------------------------------------------------
(* C23 *)

\* C23: after every event of the controller the rendered list is what
\* renderTasks makes of the store's getAllTasks: the empty-state block
\* exactly when the store holds no task, one block per task otherwise.
C23_RenderedListIsTheStoresList ==
    /\ dom.tasksList = renderTasks(getAllTasks(tasks))
    /\ dom.tasksList.emptyState = (Len(tasks) = 0)

\* The page has just been loaded over a slot that holds two tasks, and
\* lists them.
C23_Witness ==
    /\ last.op = "constructor"
    /\ Len(tasks) = 2
    /\ Len(dom.tasksList.items) = 2
    /\ ~dom.tasksList.emptyState

-----------------------------------------------------------------------------
(* C24 *)

\* C24: the search result never shows a task that the store does not hold.
C24_SearchResultIsInTheStore ==
    dom.searchResult.kind = "task" =>
        \E i \in 1..Len(tasks) :
            /\ tasks[i].value.id = dom.searchResult.id
            /\ tasks[i].value.description = dom.searchResult.description
            /\ formatDateTime(tasks[i].value.datetime) = dom.searchResult.datetime

-----------------------------------------------------------------------------
(* C25 *)

\* C25: a search of the id the rendered list shows for a task displays that
\* task.
C25_SearchFindsTheTaskShown ==
    [][ /\ Called("handleSearch")
        /\ \E i \in 1..Len(dom.tasksList.items) :
               dom.tasksList.items[i].id = dom.searchInput
        => /\ dom'.searchResult.kind = "task"
           /\ \E i \in 1..Len(dom.tasksList.items) :
                 /\ dom.tasksList.items[i].id = dom'.searchResult.id
                 /\ dom.tasksList.items[i].description = dom'.searchResult.description
                 /\ dom.tasksList.items[i].datetime = dom'.searchResult.datetime
      ]_vars

====
